---- MODULE Spec2Model ----
(***************************************************************************)
(* Provider lifecycle and render coordination of the denoising filter     *)
(* (source/filters/filter-denoising.cpp), built with                      *)
(* ENABLE_FILTER_DENOISING_NVIDIA.                                         *)
(*                                                                         *)
(* Threads: the graphics thread (video_tick / video_render), the thread    *)
(* that creates and updates the instance, the thread that destroys it,     *)
(* and the workers of streamfx::threadpool() running task_switch_provider. *)
(* Every read or write of a shared field is one step; the provider calls   *)
(* made inside a std::unique_lock scope are steps of the lock's owner.     *)
(***************************************************************************)
EXTENDS Integers, Sequences, FiniteSets, TLC

\* ------------------------------------------------------------------ bounds
\* Number of switch tasks one instance may enqueue in a run.
MaxSwitches == 3
\* Number of worker threads of the thread pool.
NumWorkers == 2

\* ------------------------------------------------------- provider identity
INVALID == "INVALID"
AUTOMATIC == "AUTOMATIC"
NVIDIA_DENOISING == "NVIDIA_DENOISING"

denoising_provider == {INVALID, AUTOMATIC, NVIDIA_DENOISING}

provider_priority == <<NVIDIA_DENOISING>>

VARIABLES
  factory_pc,         \* "uninit" | "ready": denoising_factory constructed?
  _nvidia_available,  \* denoising_factory::_nvidia_available
  registered,         \* the filter was registered (finish_setup was reached)
  inst,               \* "none" | "alive" | "destroyed"
  _provider_ready,    \* denoising_instance::_provider_ready
  _provider,          \* denoising_instance::_provider (the active provider)
  _provider_ui,       \* denoising_instance::_provider_ui
  _provider_task,     \* index in tasks of the stored task handle, 0 = none
  _provider_lock,     \* owner of the mutex: <<kind, id>>, <<"free", 0>> if none
  _nvidia_fx,         \* TRUE iff _nvidia_fx holds a loaded backend
  _dirty,             \* denoising_instance::_dirty
  _output,            \* "input" | "fx" | "null": what _output points to
  tasks,              \* every task pushed to the pool, in push order
  pc_r,               \* position of the graphics thread
  pc_u,               \* position of the updating thread
  pc_d,               \* position of the destroying thread
  u_cfg,              \* update(): the provider read from the settings
  u_provider,         \* update()/switch_provider()'s local `provider`
  last_switch,        \* history: argument of the last switch_provider call
  last_loaded,        \* history: provider the last completed task loaded
  last_process,       \* history: how video_render's last process call went
  output_unloaded,    \* history: the backend that made _output was unloaded
  ticked,             \* history: video_tick returned, no render began since
  render_result,      \* history: how the last video_render ended
  escaped             \* history: where an exception left the instance's code

vars == <<factory_pc, _nvidia_available, registered, inst, _provider_ready,
          _provider, _provider_ui, _provider_task, _provider_lock, _nvidia_fx,
          _dirty, _output, tasks, pc_r, pc_u, pc_d, u_cfg, u_provider,
          last_switch, last_loaded, last_process, output_unloaded, ticked,
          render_result, escaped>>

factoryVars == <<factory_pc, _nvidia_available, registered>>
frameVars == <<_dirty, _output, render_result>>
updVars == <<u_cfg, u_provider>>
histVars == <<last_switch, last_loaded, last_process, output_unloaded>>

FREE == <<"free", 0>>
RENDER == <<"render", 0>>
TICK == <<"tick", 0>>
UPDATE == <<"update", 0>>
SWITCH == <<"switch", 0>>
DTOR == <<"dtor", 0>>
TaskOwner(i) == <<"task", i>>

\* An exception that leaves a callback of the host ends the process.
Live == escaped = "none"

\* ------------------------------------------------------------------ factory
is_provider_available(provider, avail) ==
  IF provider = NVIDIA_DENOISING THEN avail ELSE FALSE

\* Variant of find_ideal_from that returns the first identity of the list
\* without asking whether it is available.
find_ideal_from_unchecked(k, avail) ==
  IF k > Len(provider_priority) THEN AUTOMATIC ELSE provider_priority[k]

RECURSIVE find_ideal_from(_, _)
find_ideal_from(k, avail) ==
  IF k > Len(provider_priority) THEN AUTOMATIC
  ELSE IF is_provider_available(provider_priority[k], avail)
       THEN provider_priority[k]
       ELSE find_ideal_from(k + 1, avail)

find_ideal_provider(avail) == find_ideal_from(1, avail)

\* denoising_factory::denoising_factory(): probe the providers; the filter is
\* registered only if one of them is available.
FactoryConstruct ==
  /\ factory_pc = "uninit"
  /\ \E probe_ok \in BOOLEAN :
       /\ _nvidia_available' = probe_ok
       /\ registered' = probe_ok
  /\ factory_pc' = "ready"
  /\ UNCHANGED <<inst, _provider_ready, _provider, _provider_ui,
                 _provider_task, _provider_lock, _nvidia_fx, _dirty, _output,
                 tasks, pc_r, pc_u, pc_d, updVars, ticked, histVars,
                 render_result, escaped>>

\* --------------------------------------------------------------- thread pool
Running(t) == t.pc \in {"mark", "lock", "unload", "load", "setready"}
Outstanding(t) == t.pc = "queued" \/ Running(t)

RunningTasks == {i \in DOMAIN tasks : Running(tasks[i])}
OutstandingTasks == {i \in DOMAIN tasks : Outstanding(tasks[i])}

\* threadpool::pop(task): removes the task if it is still queued; a task a
\* worker has taken is left alone.
threadpool_pop(ts, h) ==
  IF h \in DOMAIN ts /\ ts[h].pc = "queued"
  THEN [ts EXCEPT ![h].pc = "cancelled"]
  ELSE ts

\* threadpool::push(fn, data): appends a queued task bound to data.
threadpool_push(ts, old, new) ==
  Append(ts, [old |-> old, new |-> new, pc |-> "queued", result |-> "none"])

\* ------------------------------------------------------------------ instance
Init ==
  /\ factory_pc = "uninit"
  /\ _nvidia_available = FALSE
  /\ registered = FALSE
  /\ inst = "none"
  /\ _provider_ready = FALSE
  /\ _provider = INVALID
  /\ _provider_ui = INVALID
  /\ _provider_task = 0
  /\ _provider_lock = FREE
  /\ _nvidia_fx = FALSE
  /\ _dirty = FALSE
  /\ _output = "input"
  /\ tasks = <<>>
  /\ pc_r = "idle"
  /\ pc_u = "idle"
  /\ pc_d = "idle"
  /\ u_cfg = INVALID
  /\ u_provider = INVALID
  /\ last_switch = "none"
  /\ last_loaded = "none"
  /\ last_process = "none"
  /\ output_unloaded = FALSE
  /\ ticked = FALSE
  /\ render_result = "none"
  /\ escaped = "none"

\* denoising_instance::denoising_instance(): the host creates instances of
\* registered filters only.  _dirty has no initializer in the constructor.
\* With settings, the constructor goes on into load() -> update().
InstanceConstruct ==
  /\ Live
  /\ registered
  /\ inst = "none"
  /\ inst' = "alive"
  /\ _provider_ready' = FALSE
  /\ _provider' = INVALID
  /\ _provider_task' = 0
  /\ _output' = "input"
  /\ \E d \in BOOLEAN : _dirty' = d
  /\ \E has_data \in BOOLEAN : pc_u' = IF has_data THEN "u_begin" ELSE "idle"
  /\ UNCHANGED <<factoryVars, _provider_ui, _provider_lock, _nvidia_fx, tasks,
                 pc_r, pc_d, updVars, ticked, histVars, render_result, escaped>>

\* The host calls update() on a live instance.
UpdateCall ==
  /\ Live
  /\ inst = "alive"
  /\ pc_u = "idle"
  /\ pc_d = "idle"
  /\ pc_u' = "u_begin"
  /\ UNCHANGED <<factoryVars, inst, _provider_ready, _provider, _provider_ui,
                 _provider_task, _provider_lock, _nvidia_fx, frameVars, tasks,
                 pc_r, pc_d, updVars, ticked, histVars, escaped>>

\* Variant of resolve_provider that hands the configured value on as it is.
resolve_provider_unresolved(cfg, avail) == cfg

\* update(), lines 131-141: read the configured provider, resolve AUTOMATIC,
\* and call switch_provider if it differs from the active one.
resolve_provider(cfg, avail) ==
  IF cfg = AUTOMATIC THEN find_ideal_provider(avail) ELSE cfg

UpdateBegin ==
  /\ Live
  /\ pc_u = "u_begin"
  /\ \E cfg \in denoising_provider :
       LET provider == resolve_provider(cfg, _nvidia_available) IN
       /\ provider # _provider => Len(tasks) < MaxSwitches
       /\ u_cfg' = cfg
       /\ u_provider' = provider
       /\ IF provider # _provider
          THEN /\ _provider_ui' = provider
               /\ last_switch' = provider
               /\ pc_u' = "s_lock"
          ELSE /\ pc_u' = "u_check"
               /\ UNCHANGED <<_provider_ui, last_switch>>
  /\ UNCHANGED <<last_loaded, last_process, output_unloaded, ticked>>
  /\ UNCHANGED <<factoryVars, inst, _provider_ready, _provider,
                 _provider_task, _provider_lock, _nvidia_fx, frameVars, tasks,
                 pc_r, pc_d, escaped>>

\* switch_provider(), line 386: take the provider lock.
SwitchLock ==
  /\ Live
  /\ pc_u = "s_lock"
  /\ _provider_lock = FREE
  /\ _provider_lock' = SWITCH
  /\ pc_u' = "s_body"
  /\ UNCHANGED <<factoryVars, inst, _provider_ready, _provider, _provider_ui,
                 _provider_task, _nvidia_fx, frameVars, tasks, pc_r, pc_d,
                 updVars, ticked, histVars, escaped>>

\* Variant of switch_cancel that leaves the stored task in the pool.
switch_cancel_never(ts, h) == ts

\* switch_provider(), lines 401-404: cancel the stored task, if any.
switch_cancel(ts, h) == IF h # 0 THEN threadpool_pop(ts, h) ELSE ts

\* switch_provider(), lines 388-414, under the lock: return if nothing
\* changes; else cancel the stored task, capture the old provider, store the
\* new one as active and push a new task.
SwitchBody ==
  /\ Live
  /\ pc_u = "s_body"
  /\ _provider_lock = SWITCH
  /\ IF u_provider = _provider
     THEN UNCHANGED <<tasks, _provider, _provider_task>>
     ELSE /\ tasks' = threadpool_push(switch_cancel(tasks, _provider_task),
                                      _provider, u_provider)
          /\ _provider' = u_provider
          /\ _provider_task' = Len(tasks) + 1
  /\ _provider_lock' = FREE
  /\ pc_u' = "u_check"
  /\ UNCHANGED <<factoryVars, inst, _provider_ready, _provider_ui, _nvidia_fx,
                 frameVars, pc_r, pc_d, updVars, ticked, histVars, escaped>>

\* update(), line 143: forward the settings only if the provider is ready.
UpdateCheck ==
  /\ Live
  /\ pc_u = "u_check"
  /\ pc_u' = IF _provider_ready THEN "u_lock" ELSE "idle"
  /\ UNCHANGED <<factoryVars, inst, _provider_ready, _provider, _provider_ui,
                 _provider_task, _provider_lock, _nvidia_fx, frameVars, tasks,
                 pc_r, pc_d, updVars, ticked, histVars, escaped>>

\* update(), line 144.
UpdateLock ==
  /\ Live
  /\ pc_u = "u_lock"
  /\ _provider_lock = FREE
  /\ _provider_lock' = UPDATE
  /\ pc_u' = "u_configure"
  /\ UNCHANGED <<factoryVars, inst, _provider_ready, _provider, _provider_ui,
                 _provider_task, _nvidia_fx, frameVars, tasks, pc_r, pc_d,
                 updVars, ticked, histVars, escaped>>

\* update(), lines 146-155: nvvfx_denoising_update() sets the strength of a
\* loaded backend and changes nothing of the instance; then unlock.
UpdateConfigure ==
  /\ Live
  /\ pc_u = "u_configure"
  /\ _provider_lock = UPDATE
  /\ _provider_lock' = FREE
  /\ pc_u' = "idle"
  /\ UNCHANGED <<factoryVars, inst, _provider_ready, _provider, _provider_ui,
                 _provider_task, _nvidia_fx, frameVars, tasks, pc_r, pc_d,
                 updVars, ticked, histVars, escaped>>

\* --------------------------------------------------------- provider backend
\* Outcomes of the calls into ::streamfx::nvidia::vfx::denoising.
LoadOutcomes == {"ok", "throw"}
SizeOutcomes == {"ok", "throw"}
ProcessOutcomes == {"fx", "null", "throw"}

\* --------------------------------------------------- task_switch_provider
SetTask(i, pc, result) == [tasks EXCEPT ![i].pc = pc, ![i].result = result]

\* A free worker of the pool takes a queued task.
TaskStart(i) ==
  /\ Live
  /\ i \in DOMAIN tasks
  /\ tasks[i].pc = "queued"
  /\ Cardinality(RunningTasks) < NumWorkers
  /\ tasks' = SetTask(i, "mark", "none")
  /\ UNCHANGED <<factoryVars, inst, _provider_ready, _provider, _provider_ui,
                 _provider_task, _provider_lock, _nvidia_fx, frameVars, pc_r,
                 pc_u, pc_d, updVars, ticked, histVars, escaped>>

\* Line 421: _provider_ready = false, before the lock is taken.
TaskMark(i) ==
  /\ Live
  /\ i \in DOMAIN tasks
  /\ tasks[i].pc = "mark"
  /\ _provider_ready' = FALSE
  /\ tasks' = SetTask(i, "lock", "none")
  /\ UNCHANGED <<factoryVars, inst, _provider, _provider_ui, _provider_task,
                 _provider_lock, _nvidia_fx, frameVars, pc_r, pc_u, pc_d,
                 updVars, ticked, histVars, escaped>>

\* Variant of TaskLock that goes on without the provider lock.
TaskLock_unlocked(i) ==
  /\ Live
  /\ i \in DOMAIN tasks
  /\ tasks[i].pc = "lock"
  /\ tasks' = SetTask(i, "unload", "none")
  /\ UNCHANGED <<factoryVars, inst, _provider_ready, _provider, _provider_ui,
                 _provider_task, _provider_lock, _nvidia_fx, frameVars, pc_r,
                 pc_u, pc_d, updVars, ticked, histVars, escaped>>

\* Line 424: take the provider lock.
TaskLock(i) ==
  /\ Live
  /\ i \in DOMAIN tasks
  /\ tasks[i].pc = "lock"
  /\ _provider_lock = FREE
  /\ _provider_lock' = TaskOwner(i)
  /\ tasks' = SetTask(i, "unload", "none")
  /\ UNCHANGED <<factoryVars, inst, _provider_ready, _provider, _provider_ui,
                 _provider_task, _nvidia_fx, frameVars, pc_r, pc_u, pc_d,
                 updVars, ticked, histVars, escaped>>

\* Whether _output is left behind by a backend that is gone: it was already,
\* or nvvfx_denoising_unload() (line 467) or the assignment of a new backend
\* (line 462) now drops the backend whose process() returned it.
output_after_drop(dropped) ==
  output_unloaded \/ (dropped /\ _nvidia_fx /\ _output = "fx")

\* Variant of TaskUnload that unloads the provider named by _provider as it
\* is now instead of the captured one.
TaskUnload_current(i) ==
  /\ Live
  /\ i \in DOMAIN tasks
  /\ tasks[i].pc = "unload"
  /\ _provider_lock = TaskOwner(i)
  /\ _nvidia_fx' = IF _provider = NVIDIA_DENOISING THEN FALSE ELSE _nvidia_fx
  /\ output_unloaded' = output_after_drop(_provider = NVIDIA_DENOISING)
  /\ tasks' = SetTask(i, "load", "none")
  /\ UNCHANGED <<factoryVars, inst, _provider_ready, _provider, _provider_ui,
                 _provider_task, _provider_lock, frameVars, pc_r, pc_u, pc_d,
                 updVars, ticked, last_switch, last_loaded, last_process,
                 escaped>>

\* Lines 427-436: unload the provider captured in spd->provider.
TaskUnload(i) ==
  /\ Live
  /\ i \in DOMAIN tasks
  /\ tasks[i].pc = "unload"
  /\ _provider_lock = TaskOwner(i)
  /\ _nvidia_fx' = IF tasks[i].old = NVIDIA_DENOISING THEN FALSE ELSE _nvidia_fx
  /\ output_unloaded' = output_after_drop(tasks[i].old = NVIDIA_DENOISING)
  /\ tasks' = SetTask(i, "load", "none")
  /\ UNCHANGED <<factoryVars, inst, _provider_ready, _provider, _provider_ui,
                 _provider_task, _provider_lock, frameVars, pc_r, pc_u, pc_d,
                 updVars, ticked, last_switch, last_loaded, last_process,
                 escaped>>

\* Variant of TaskLoad that writes the captured provider back to _provider
\* when the load fails.
TaskLoad_rollback(i) ==
  /\ Live
  /\ i \in DOMAIN tasks
  /\ tasks[i].pc = "load"
  /\ _provider_lock = TaskOwner(i)
  /\ IF _provider = NVIDIA_DENOISING
     THEN \E r \in LoadOutcomes :
            IF r = "ok"
            THEN /\ _nvidia_fx' = TRUE
                 /\ output_unloaded' = output_after_drop(TRUE)
                 /\ tasks' = SetTask(i, "setready", "none")
                 /\ UNCHANGED <<_provider_lock, _provider, last_loaded>>
            ELSE /\ tasks' = SetTask(i, "done", "fail")
                 /\ _provider_lock' = FREE
                 /\ _provider' = tasks[i].old
                 /\ last_loaded' = "none"
                 /\ UNCHANGED <<_nvidia_fx, output_unloaded>>
     ELSE /\ tasks' = SetTask(i, "setready", "none")
          /\ UNCHANGED <<_nvidia_fx, _provider_lock, _provider, last_loaded,
                         output_unloaded>>
  /\ UNCHANGED <<factoryVars, inst, _provider_ready, _provider_ui,
                 _provider_task, frameVars, pc_r, pc_u, pc_d, updVars, ticked,
                 last_switch, last_process, escaped>>

\* Lines 438-447 and 454-457: load the provider named by _provider as it is
\* now.  A std::exception from the load is caught and logged; the lock is
\* released and _provider_ready is left as it is.
TaskLoad(i) ==
  /\ Live
  /\ i \in DOMAIN tasks
  /\ tasks[i].pc = "load"
  /\ _provider_lock = TaskOwner(i)
  /\ IF _provider = NVIDIA_DENOISING
     THEN \E r \in LoadOutcomes :
            IF r = "ok"
            THEN /\ _nvidia_fx' = TRUE
                 /\ output_unloaded' = output_after_drop(TRUE)
                 /\ tasks' = SetTask(i, "setready", "none")
                 /\ UNCHANGED <<_provider_lock, last_loaded>>
            ELSE /\ tasks' = SetTask(i, "done", "fail")
                 /\ _provider_lock' = FREE
                 /\ last_loaded' = "none"
                 /\ UNCHANGED <<_nvidia_fx, output_unloaded>>
     ELSE /\ tasks' = SetTask(i, "setready", "none")
          /\ UNCHANGED <<_nvidia_fx, _provider_lock, last_loaded,
                         output_unloaded>>
  /\ UNCHANGED <<factoryVars, inst, _provider_ready, _provider, _provider_ui,
                 _provider_task, frameVars, pc_r, pc_u, pc_d, updVars, ticked,
                 last_switch, last_process, escaped>>

\* Line 453 and the end of the function: _provider_ready = true, unlock.
TaskSetReady(i) ==
  /\ Live
  /\ i \in DOMAIN tasks
  /\ tasks[i].pc = "setready"
  /\ _provider_lock = TaskOwner(i)
  /\ _provider_ready' = TRUE
  /\ _provider_lock' = FREE
  /\ tasks' = SetTask(i, "done", "ok")
  /\ last_loaded' = _provider
  /\ UNCHANGED <<factoryVars, inst, _provider, _provider_ui, _provider_task,
                 _nvidia_fx, frameVars, pc_r, pc_u, pc_d, updVars, ticked,
                 last_switch, last_process, output_unloaded, escaped>>

\* ------------------------------------------------------------- video_tick
\* Variant of TickBegin that marks the frame dirty only when the provider
\* was asked for the size.
TickBegin_dirty_if_asked ==
  /\ Live
  /\ inst = "alive"
  /\ pc_r = "idle"
  /\ pc_d = "idle"
  /\ \E target \in BOOLEAN :
       IF target /\ _provider_ready
       THEN /\ pc_r' = "k_lock"
            /\ UNCHANGED <<_dirty, ticked>>
       ELSE /\ pc_r' = "idle"
            /\ UNCHANGED _dirty
            /\ ticked' = TRUE
  /\ UNCHANGED <<factoryVars, inst, _provider_ready, _provider, _provider_ui,
                 _provider_task, _provider_lock, _nvidia_fx, _output,
                 render_result, tasks, pc_u, pc_d, updVars, histVars,
                 escaped>>

\* Lines 183-189 (and 203 when the provider is not asked): the size is taken
\* from the target; the provider is asked only if it is ready.
TickBegin ==
  /\ Live
  /\ inst = "alive"
  /\ pc_r = "idle"
  /\ pc_d = "idle"
  /\ \E target \in BOOLEAN :
       IF target /\ _provider_ready
       THEN /\ pc_r' = "k_lock"
            /\ UNCHANGED <<_dirty, ticked>>
       ELSE /\ pc_r' = "idle"
            /\ _dirty' = TRUE
            /\ ticked' = TRUE
  /\ UNCHANGED <<factoryVars, inst, _provider_ready, _provider, _provider_ui,
                 _provider_task, _provider_lock, _nvidia_fx, _output,
                 render_result, tasks, pc_u, pc_d, updVars, histVars,
                 escaped>>

\* Line 190.
TickLock ==
  /\ Live
  /\ pc_r = "k_lock"
  /\ _provider_lock = FREE
  /\ _provider_lock' = TICK
  /\ pc_r' = "k_size"
  /\ UNCHANGED <<factoryVars, inst, _provider_ready, _provider, _provider_ui,
                 _provider_task, _nvidia_fx, frameVars, tasks, pc_u, pc_d,
                 updVars, ticked, histVars, escaped>>

\* nvvfx_denoising_size(), lines 471-478, as called for provider p: nothing
\* without a loaded backend, else the backend's size(), which may throw.
size_outcomes(p, fx) ==
  IF p = NVIDIA_DENOISING /\ fx THEN SizeOutcomes ELSE {"ok"}

\* Lines 192-203: the size call, unlock, _dirty = true.  Nothing catches an
\* exception of the size call here.
TickSize ==
  /\ Live
  /\ pc_r = "k_size"
  /\ _provider_lock = TICK
  /\ \E r \in size_outcomes(_provider, _nvidia_fx) :
       IF r = "ok"
       THEN /\ _dirty' = TRUE
            /\ ticked' = TRUE
            /\ UNCHANGED escaped
       ELSE /\ escaped' = "tick"
            /\ UNCHANGED <<_dirty, ticked>>
  /\ _provider_lock' = FREE
  /\ pc_r' = "idle"
  /\ UNCHANGED <<factoryVars, inst, _provider_ready, _provider, _provider_ui,
                 _provider_task, _nvidia_fx, _output, render_result, tasks,
                 pc_u, pc_d, updVars, histVars>>

\* ----------------------------------------------------------- video_render
\* Lines 208-233: skip unless the provider is ready, a target exists and its
\* size is not empty; then go through the locked phases only if _dirty.
RenderBegin ==
  /\ Live
  /\ inst = "alive"
  /\ pc_r = "idle"
  /\ pc_d = "idle"
  /\ \E target \in BOOLEAN, nonempty \in BOOLEAN :
       IF ~_provider_ready \/ ~target \/ ~nonempty
       THEN /\ render_result' = "skip"
            /\ pc_r' = "idle"
       ELSE /\ render_result' = "none"
            /\ pc_r' = IF _dirty THEN "r1_lock" ELSE "r_draw"
  /\ last_process' = "none"
  /\ ticked' = FALSE
  /\ UNCHANGED <<factoryVars, inst, _provider_ready, _provider, _provider_ui,
                 _provider_task, _provider_lock, _nvidia_fx, _dirty, _output,
                 tasks, pc_u, pc_d, updVars, last_switch, last_loaded,
                 output_unloaded, escaped>>

\* Line 234.
Render1Lock ==
  /\ Live
  /\ pc_r = "r1_lock"
  /\ _provider_lock = FREE
  /\ _provider_lock' = RENDER
  /\ pc_r' = "r1_size"
  /\ UNCHANGED <<factoryVars, inst, _provider_ready, _provider, _provider_ui,
                 _provider_task, _nvidia_fx, frameVars, tasks, pc_u, pc_d,
                 updVars, ticked, histVars, escaped>>

\* Lines 236-247: the size call of the first phase, outside any try block.
Render1Size ==
  /\ Live
  /\ pc_r = "r1_size"
  /\ _provider_lock = RENDER
  /\ \E r \in size_outcomes(_provider, _nvidia_fx) :
       IF r = "ok"
       THEN /\ pc_r' = "r1_capture"
            /\ UNCHANGED <<_provider_lock, escaped>>
       ELSE /\ pc_r' = "idle"
            /\ _provider_lock' = FREE
            /\ escaped' = "render"
  /\ UNCHANGED <<factoryVars, inst, _provider_ready, _provider, _provider_ui,
                 _provider_task, _nvidia_fx, frameVars, tasks, pc_u, pc_d,
                 updVars, ticked, histVars>>

\* Lines 249-275: capture the input; skip the frame if the host refuses.
Render1Capture ==
  /\ Live
  /\ pc_r = "r1_capture"
  /\ _provider_lock = RENDER
  /\ \E begun \in BOOLEAN :
       IF begun
       THEN /\ pc_r' = "r1_process"
            /\ UNCHANGED <<_provider_lock, render_result>>
       ELSE /\ pc_r' = "idle"
            /\ _provider_lock' = FREE
            /\ render_result' = "skip"
  /\ UNCHANGED <<factoryVars, inst, _provider_ready, _provider, _provider_ui,
                 _provider_task, _nvidia_fx, _dirty, _output, tasks, pc_u,
                 pc_d, updVars, ticked, histVars, escaped>>

\* Variant of process_outcomes in which nvvfx_denoising_process() gives no
\* output when no backend is loaded.
process_outcomes_null_unloaded(p, fx) ==
  IF p = NVIDIA_DENOISING
  THEN IF fx THEN ProcessOutcomes ELSE {"null"}
  ELSE {"null"}

\* nvvfx_denoising_process(), lines 480-488, as dispatched for provider p:
\* what _output becomes, or "throw".  Without a loaded backend the input
\* texture is handed back; any other provider gives no output.
process_outcomes(p, fx) ==
  IF p = NVIDIA_DENOISING
  THEN IF fx THEN ProcessOutcomes ELSE {"input"}
  ELSE {"null"}

\* Which way the dispatch on provider p went: the switch's default branch,
\* nvvfx_denoising_process() without a backend, or the backend's outcome r.
process_kind(p, fx, r) ==
  IF p # NVIDIA_DENOISING THEN "default"
  ELSE IF ~fx THEN "unloaded" ELSE r

\* Lines 277-298: process in the first phase, outside any try block; no
\* output is logged and skipped; else the lock is released and, _dirty
\* being still set, the second phase follows.
Render1Process ==
  /\ Live
  /\ pc_r = "r1_process"
  /\ _provider_lock = RENDER
  /\ \E r \in process_outcomes(_provider, _nvidia_fx) :
       /\ last_process' = process_kind(_provider, _nvidia_fx, r)
       /\ IF r = "throw"
          THEN /\ escaped' = "render"
               /\ pc_r' = "idle"
               /\ UNCHANGED <<_output, output_unloaded, render_result>>
          ELSE /\ _output' = r
               /\ output_unloaded' = FALSE
               /\ UNCHANGED escaped
               /\ IF r = "null"
                  THEN /\ render_result' = "skip"
                       /\ pc_r' = "idle"
                  ELSE /\ pc_r' = "r2_lock"
                       /\ UNCHANGED render_result
  /\ _provider_lock' = FREE
  /\ UNCHANGED <<factoryVars, inst, _provider_ready, _provider, _provider_ui,
                 _provider_task, _nvidia_fx, _dirty, tasks, pc_u, pc_d,
                 updVars, ticked, last_switch, last_loaded>>

\* Line 302.
Render2Lock ==
  /\ Live
  /\ pc_r = "r2_lock"
  /\ _provider_lock = FREE
  /\ _provider_lock' = RENDER
  /\ pc_r' = "r2_capture"
  /\ UNCHANGED <<factoryVars, inst, _provider_ready, _provider, _provider_ui,
                 _provider_task, _nvidia_fx, frameVars, tasks, pc_u, pc_d,
                 updVars, ticked, histVars, escaped>>

\* Lines 304-339.
Render2Capture ==
  /\ Live
  /\ pc_r = "r2_capture"
  /\ _provider_lock = RENDER
  /\ \E begun \in BOOLEAN :
       IF begun
       THEN /\ pc_r' = "r2_process"
            /\ UNCHANGED <<_provider_lock, render_result>>
       ELSE /\ pc_r' = "idle"
            /\ _provider_lock' = FREE
            /\ render_result' = "skip"
  /\ UNCHANGED <<factoryVars, inst, _provider_ready, _provider, _provider_ui,
                 _provider_task, _nvidia_fx, _dirty, _output, tasks, pc_u,
                 pc_d, updVars, ticked, histVars, escaped>>

\* Variant of Render2Process that clears _dirty before it looks at the
\* output.
Render2Process_clear_first ==
  /\ Live
  /\ pc_r = "r2_process"
  /\ _provider_lock = RENDER
  /\ \E r \in process_outcomes(_provider, _nvidia_fx) :
       /\ last_process' = process_kind(_provider, _nvidia_fx, r)
       /\ IF r = "throw"
          THEN /\ render_result' = "skip"
               /\ pc_r' = "idle"
               /\ UNCHANGED <<_output, output_unloaded, _dirty>>
          ELSE /\ _output' = r
               /\ output_unloaded' = FALSE
               /\ IF r = "null"
                  THEN /\ render_result' = "skip"
                       /\ pc_r' = "idle"
                       /\ _dirty' = FALSE
                  ELSE /\ _dirty' = FALSE
                       /\ pc_r' = "r_draw"
                       /\ UNCHANGED render_result
  /\ _provider_lock' = FREE
  /\ UNCHANGED <<factoryVars, inst, _provider_ready, _provider, _provider_ui,
                 _provider_task, _nvidia_fx, tasks, pc_u, pc_d, updVars, ticked,
                 last_switch, last_loaded, escaped>>

\* Lines 341-367: process inside try/catch(...); an exception or no output
\* skips the frame; else _dirty is cleared and the lock released.
Render2Process ==
  /\ Live
  /\ pc_r = "r2_process"
  /\ _provider_lock = RENDER
  /\ \E r \in process_outcomes(_provider, _nvidia_fx) :
       /\ last_process' = process_kind(_provider, _nvidia_fx, r)
       /\ IF r = "throw"
          THEN /\ render_result' = "skip"
               /\ pc_r' = "idle"
               /\ UNCHANGED <<_output, output_unloaded, _dirty>>
          ELSE /\ _output' = r
               /\ output_unloaded' = FALSE
               /\ IF r = "null"
                  THEN /\ render_result' = "skip"
                       /\ pc_r' = "idle"
                       /\ UNCHANGED _dirty
                  ELSE /\ _dirty' = FALSE
                       /\ pc_r' = "r_draw"
                       /\ UNCHANGED render_result
  /\ _provider_lock' = FREE
  /\ UNCHANGED <<factoryVars, inst, _provider_ready, _provider, _provider_ui,
                 _provider_task, _nvidia_fx, tasks, pc_u, pc_d, updVars, ticked,
                 last_switch, last_loaded, escaped>>

\* Lines 369-377: draw _output.
RenderDraw ==
  /\ Live
  /\ pc_r = "r_draw"
  /\ render_result' = "draw"
  /\ pc_r' = "idle"
  /\ UNCHANGED <<factoryVars, inst, _provider_ready, _provider, _provider_ui,
                 _provider_task, _provider_lock, _nvidia_fx, _dirty, _output,
                 tasks, pc_u, pc_d, updVars, ticked, histVars, escaped>>

\* ------------------------------------------------------------- destructor
\* The host destroys an instance none of its threads is inside of; from
\* then on it makes no further call into the instance.
DestructorBegin ==
  /\ Live
  /\ inst = "alive"
  /\ pc_r = "idle"
  /\ pc_u = "idle"
  /\ pc_d = "idle"
  /\ pc_d' = "d_lock"
  /\ UNCHANGED <<factoryVars, inst, _provider_ready, _provider, _provider_ui,
                 _provider_task, _provider_lock, _nvidia_fx, frameVars, tasks,
                 pc_r, pc_u, updVars, ticked, histVars, escaped>>

\* Variant of DestructorLock that goes on to the unload without waiting for
\* the holder of the lock.
DestructorLock_nowait ==
  /\ Live
  /\ pc_d = "d_lock"
  /\ _provider_lock' = DTOR
  /\ pc_d' = "d_unload"
  /\ UNCHANGED <<factoryVars, inst, _provider_ready, _provider, _provider_ui,
                 _provider_task, _nvidia_fx, frameVars, tasks, pc_r, pc_u,
                 updVars, ticked, histVars, escaped>>

\* Line 110: take the provider lock, waiting for whoever holds it.
DestructorLock ==
  /\ Live
  /\ pc_d = "d_lock"
  /\ _provider_lock = FREE
  /\ _provider_lock' = DTOR
  /\ pc_d' = "d_unload"
  /\ UNCHANGED <<factoryVars, inst, _provider_ready, _provider, _provider_ui,
                 _provider_task, _nvidia_fx, frameVars, tasks, pc_r, pc_u,
                 updVars, ticked, histVars, escaped>>

\* Lines 111-120: unload the active provider, release the lock.
DestructorUnload ==
  /\ Live
  /\ pc_d = "d_unload"
  /\ _provider_lock = DTOR
  /\ _nvidia_fx' = IF _provider = NVIDIA_DENOISING THEN FALSE ELSE _nvidia_fx
  /\ output_unloaded' = output_after_drop(_provider = NVIDIA_DENOISING)
  /\ _provider_lock' = FREE
  /\ pc_d' = "done"
  /\ inst' = "destroyed"
  /\ UNCHANGED <<factoryVars, _provider_ready, _provider, _provider_ui,
                 _provider_task, frameVars, tasks, pc_r, pc_u, updVars, ticked,
                 last_switch, last_loaded, last_process, escaped>>

\* ---------------------------------------------------------- specification
Next ==
  \/ FactoryConstruct
  \/ InstanceConstruct
  \/ UpdateCall
  \/ UpdateBegin
  \/ SwitchLock
  \/ SwitchBody
  \/ UpdateCheck
  \/ UpdateLock
  \/ UpdateConfigure
  \/ \E i \in 1..(MaxSwitches + 1) : TaskStart(i)
  \/ \E i \in 1..(MaxSwitches + 1) : TaskMark(i)
  \/ \E i \in 1..(MaxSwitches + 1) : TaskLock(i)
  \/ \E i \in 1..(MaxSwitches + 1) : TaskUnload(i)
  \/ \E i \in 1..(MaxSwitches + 1) : TaskLoad(i)
  \/ \E i \in 1..(MaxSwitches + 1) : TaskSetReady(i)
  \/ TickBegin
  \/ TickLock
  \/ TickSize
  \/ RenderBegin
  \/ Render1Lock
  \/ Render1Size
  \/ Render1Capture
  \/ Render1Process
  \/ Render2Lock
  \/ Render2Capture
  \/ Render2Process
  \/ RenderDraw
  \/ DestructorBegin
  \/ DestructorLock
  \/ DestructorUnload

Spec == Init /\ [][Next]_vars

\* ------------------------------------------------------------ properties
SwitchCallInProgress == pc_u \in {"s_lock", "s_body"}
TaskHoldsLock == \E i \in DOMAIN tasks : _provider_lock = TaskOwner(i)

\* C1: whenever video_render is about to call the process of the NVIDIA
\* provider, in its first or in its second locked phase, _provider_ready is
\* true.
C1_ProcessOnlyWhenReady ==
  (pc_r \in {"r1_process", "r2_process"} /\ _provider = NVIDIA_DENOISING)
    => _provider_ready

\* C2: once every pushed task has run or been cancelled and no call of
\* switch_provider is under way, _provider is the argument of the last
\* switch_provider call.
C2_LastWriteWins ==
  (last_switch # "none" /\ OutstandingTasks = {} /\ ~SwitchCallInProgress)
    => _provider = last_switch

\* C2 witness: three switches were issued, one task was cancelled, one
\* failed its load, all have drained.
C2_Witness ==
  /\ Len(tasks) >= 3
  /\ OutstandingTasks = {}
  /\ ~SwitchCallInProgress
  /\ \E i \in DOMAIN tasks : tasks[i].pc = "cancelled"
  /\ \E i \in DOMAIN tasks : tasks[i].result = "fail"
  /\ _provider = last_switch

C4_SuccessfulSwitchReady ==
  (/\ _provider_task # 0
   /\ tasks[_provider_task].result = "ok"
   /\ tasks[_provider_task].new = NVIDIA_DENOISING
   /\ ~SwitchCallInProgress
   /\ pc_u # "u_begin")
    => (_provider_ready /\ _provider = NVIDIA_DENOISING)

\* C5: a task that is still queued when the next switch_provider call pushes
\* its task is cancelled by that call, a cancelled task never runs, and the
\* call leaves _provider at its argument.
C5_QueuedPredecessorCancelled ==
  [][\A i \in DOMAIN tasks :
       /\ (tasks[i].pc = "queued" /\ Len(tasks') > Len(tasks))
            => /\ tasks'[i].pc = "cancelled"
               /\ _provider' = u_provider
               /\ tasks'[Len(tasks')].pc = "queued"
       /\ tasks[i].pc = "cancelled" => tasks'[i] = tasks[i]]_vars

\* C5 witness: A's task was cancelled while queued, B's task ran its load
\* successfully and B is the active provider.
C5_Witness ==
  \E i \in DOMAIN tasks :
    /\ i + 1 \in DOMAIN tasks
    /\ tasks[i].pc = "cancelled"
    /\ tasks[i + 1].result = "ok"
    /\ _provider = tasks[i + 1].new

\* The owners that are inside a provider call (size, process, configure,
\* unload, load).
InProviderCall ==
  (IF pc_r \in {"r1_size", "r1_process", "r2_process"} THEN {RENDER} ELSE {})
    \cup (IF pc_r = "k_size" THEN {TICK} ELSE {})
    \cup (IF pc_u = "u_configure" THEN {UPDATE} ELSE {})
    \cup (IF pc_d = "d_unload" THEN {DTOR} ELSE {})
    \cup {TaskOwner(i) : i \in {j \in DOMAIN tasks :
                                  tasks[j].pc \in {"unload", "load"}}}

\* C6: while the instance exists, at most one provider call is executing at
\* a time, and whoever executes it holds the provider lock.
C6_ProviderCallsExclusive ==
  inst # "destroyed" =>
    /\ Cardinality(InProviderCall) <= 1
    /\ \A o \in InProviderCall : _provider_lock = o

\* C6 witness: a task is inside its unload/load while video_render and
\* update() both wait for the lock.
C6_Witness ==
  /\ \E i \in DOMAIN tasks :
       tasks[i].pc \in {"unload", "load"} /\ _provider_lock = TaskOwner(i)
  /\ pc_r \in {"r1_lock", "r2_lock"}
  /\ pc_u = "u_lock"

\* C7: video_render never waits for the provider lock while a switch task
\* holds it.
C7_RenderNeverWaitsOnSwitch ==
  ~(pc_r \in {"r1_lock", "r2_lock"} /\ TaskHoldsLock)

\* C8: at most one switch task of the instance is queued or running.
C8_AtMostOneOutstanding == Cardinality(OutstandingTasks) <= 1

\* C9: when a task's load fails, _provider_ready is false as the task
\* releases the lock, and _provider_ready turns true only by a task
\* completing a successful load.
C9_FailedLoadLeavesNotReady ==
  [][/\ \A i \in DOMAIN tasks :
          (tasks[i].pc = "load" /\ tasks'[i].result = "fail")
            => ~_provider_ready'
     /\ (~_provider_ready /\ _provider_ready')
          => \E i \in DOMAIN tasks :
               tasks[i].result # "ok" /\ tasks'[i].result = "ok"]_vars

\* C10: no exception of a provider call leaves video_render (or a switch
\* task).
C10_NoFailureEscapes == escaped # "render"

\* C11: _dirty is true once video_tick has returned and until the next
\* video_render begins, and it goes from true to false only in the step of
\* video_render's second phase (reached only after a successful capture) in
\* which the process call left a non-null _output.
C11_DirtyLifecycle ==
  /\ []((ticked /\ pc_r = "idle") => _dirty)
  /\ [][(_dirty /\ ~_dirty')
          => /\ pc_r = "r2_process"
             /\ pc_r' = "r_draw"
             /\ last_process' \in {"fx", "unloaded"}
             /\ _output' # "null"]_vars

\* C11 witness: a render captured, got an output of the backend and cleared
\* _dirty.
C11_Witness ==
  /\ pc_r = "r_draw"
  /\ last_process = "fx"
  /\ _output = "fx"
  /\ ~_dirty

\* C12: a process step of video_render that leaves no output ends the
\* invocation with a skip, nothing is drawn, and _dirty is still true.
C12_NoOutputSkips ==
  [][(/\ pc_r \in {"r1_process", "r2_process"}
      /\ pc_r' # pc_r
      /\ last_process' \in {"null", "default"})
       => /\ _output' = "null"
          /\ render_result' = "skip"
          /\ pc_r' = "idle"
          /\ _dirty'
          /\ escaped' = "none"]_vars

\* C12 witness: the backend's process returned no output in the second
\* phase's call or the first's, the render skipped and _dirty is still set.
C12_Witness ==
  /\ pc_r = "idle"
  /\ last_process = "null"
  /\ render_result = "skip"
  /\ _output = "null"
  /\ _dirty

\* C14: while the destructor is at its unload, no switch task is between
\* taking and releasing the provider lock.
C14_DestructorWaitsForSwitch ==
  pc_d = "d_unload"
    => /\ ~TaskHoldsLock
       /\ \A i \in DOMAIN tasks : tasks[i].pc \notin {"unload", "load", "setready"}

\* C14 witness: the destructor has been entered and waits at line 110 while
\* a switch task is inside its unload/load.
C14_Witness ==
  /\ pc_d = "d_lock"
  /\ \E i \in DOMAIN tasks :
       tasks[i].pc \in {"unload", "load"} /\ _provider_lock = TaskOwner(i)

\* C15: a task whose requested provider is no longer the active one when
\* it comes to the end of its load step does not turn _provider_ready from
\* false to true.
C15_StaleTaskDiscarded ==
  [][\A i \in DOMAIN tasks :
       (/\ tasks[i].pc = "setready"
        /\ tasks'[i].pc = "done"
        /\ tasks[i].new # _provider)
         => ~(~_provider_ready /\ _provider_ready')]_vars

\* video_render makes its process call on the NVIDIA provider while no
\* backend is loaded.
ProcessStepUnloaded ==
  /\ pc_r \in {"r1_process", "r2_process"}
  /\ pc_r' # pc_r
  /\ _provider = NVIDIA_DENOISING
  /\ ~_nvidia_fx

\* C16 (as stated): a process call on a provider without a loaded backend
\* gives no output, the render skips and _dirty stays true.
C16_UnloadedGivesNoOutput ==
  [][ProcessStepUnloaded
       => /\ _output' = "null"
          /\ render_result' = "skip"
          /\ pc_r' = "idle"
          /\ _dirty']_vars

\* C16 (amended): a process call on the NVIDIA provider without a loaded
\* backend does not fail and hands back the input texture as _output; the
\* first phase then goes on to the second, and the second clears _dirty and
\* goes on to draw.
C16_UnloadedGivesInput ==
  [][ProcessStepUnloaded
       => /\ _output' = "input"
          /\ escaped' = "none"
          /\ IF pc_r = "r1_process"
             THEN pc_r' = "r2_lock" /\ _dirty'
             ELSE pc_r' = "r_draw" /\ ~_dirty']_vars

\* C16 witness: the second phase's process call found no backend, _output is
\* the input texture, _dirty is cleared and the render is about to draw.
C16_Witness ==
  /\ pc_r = "r_draw"
  /\ last_process = "unloaded"
  /\ _output = "input"
  /\ ~_dirty

\* The first identity of provider_priority whose availability flag is set,
\* AUTOMATIC if there is none.
AvailableIndices(avail) ==
  {k \in DOMAIN provider_priority :
     is_provider_available(provider_priority[k], avail)}

FirstAvailable(avail) ==
  IF AvailableIndices(avail) = {} THEN AUTOMATIC
  ELSE provider_priority[CHOOSE k \in AvailableIndices(avail) :
                           \A j \in AvailableIndices(avail) : k <= j]

\* C17: whatever the probe of the factory set the availability flag to,
\* find_ideal_provider() gives the first available identity of the priority
\* list, AUTOMATIC exactly when none is available, never an unavailable one;
\* and that is what update() got when it resolved AUTOMATIC.
C17_IdealIsFirstAvailable ==
  factory_pc = "ready" =>
    LET r == find_ideal_provider(_nvidia_available) IN
    /\ r = FirstAvailable(_nvidia_available)
    /\ (r = AUTOMATIC) <=> (AvailableIndices(_nvidia_available) = {})
    /\ r # AUTOMATIC => is_provider_available(r, _nvidia_available)
    /\ u_cfg = AUTOMATIC => u_provider = FirstAvailable(_nvidia_available)

\* C17 witness: update() read AUTOMATIC and find_ideal_provider() gave it the
\* available NVIDIA provider.
C17_Witness ==
  /\ _nvidia_available
  /\ u_cfg = AUTOMATIC
  /\ u_provider = NVIDIA_DENOISING
  /\ pc_u = "s_lock"

\* C18: while the instance exists, once every pushed task has run or been
\* cancelled and no switch_provider call is under way, a backend is loaded
\* only if its provider is the active one.
C18_LoadedOnlyForActive ==
  (/\ inst = "alive"
   /\ tasks # <<>>
   /\ OutstandingTasks = {}
   /\ ~SwitchCallInProgress)
    => (_nvidia_fx => _provider = NVIDIA_DENOISING)

\* C18 witness: after three switches, the second one's task cancelled while
\* queued, the tasks have drained and the backend of the active provider is
\* the one that is loaded.
C18_Witness ==
  /\ inst = "alive"
  /\ Len(tasks) >= 3
  /\ OutstandingTasks = {}
  /\ ~SwitchCallInProgress
  /\ \E i \in DOMAIN tasks : tasks[i].pc = "cancelled"
  /\ last_loaded = NVIDIA_DENOISING
  /\ _provider = NVIDIA_DENOISING
  /\ _nvidia_fx

\* video_render, video_tick or update() is at a size, process or configure
\* call that the dispatch on _provider sends to the NVIDIA provider.
DispatchOnNvidia ==
  /\ \/ pc_r \in {"r1_size", "r1_process", "r2_process", "k_size"}
     \/ pc_u = "u_configure"
  /\ _provider = NVIDIA_DENOISING

\* C19: a provider call is dispatched only on the provider that the last
\* completed switch task loaded.
C19_DispatchOnLoadedProvider ==
  DispatchOnNvidia => (last_loaded = NVIDIA_DENOISING /\ _nvidia_fx)

\* C20: once the destructor has run, no task of the instance is taken by a
\* worker or executes a step.
C20_NoTaskAfterDestruction ==
  [][inst = "destroyed" => tasks' = tasks]_vars

\* The step of video_render that draws _output (lines 369-377).
DrawStep == pc_r = "r_draw" /\ pc_r' = "idle" /\ render_result' = "draw"

\* C21: video_render never draws an output that was produced by a provider
\* which has been unloaded since: what it draws comes from the provider that
\* is still loaded at the time of the draw.
C21_NoDrawOfUnloadedOutput ==
  [][DrawStep => ~output_unloaded]_vars

====
